---- MODULE Spec2Model ----
(***************************************************************************)
(* md2docx.py: Markdown -> Word conversion pipeline.                       *)
(*                                                                         *)
(*   preprocess_markdown  the line preprocessor (separator insertion and   *)
(*                        hard line breaks), lines 35-82                   *)
(*   clean_table_cells    the table cell normalizer, lines 107-149         *)
(*   main                 the driver and its error paths, lines 151-185    *)
(*                                                                         *)
(* A text is a sequence of characters, each character a one-element        *)
(* string.  Python indexes lines from 0; the sequences here start at 1.    *)
(***************************************************************************)
EXTENDS Naturals, Sequences, FiniteSets

VARIABLES
    lines,        \* preprocess_markdown: the lines read, "\n" removed
    i,            \* preprocess_markdown: index of the next line of the loop
    out_lines,    \* preprocess_markdown: the lines emitted so far
    prev_blank,   \* preprocess_markdown: the last emitted line was ""
    out_src,      \* history: for each emitted line the index of the input
                  \* line it came from, 0 for an inserted separator
    ppc,          \* preprocess_markdown: "loop" | "done"
    tmp_text,     \* the text written to the temporary file
    disk_doc,     \* the document file at docx_path: a sequence of cells
    doc,          \* clean_table_cells: the Document in memory
    doc_in,       \* history: the document as clean_table_cells loaded it
    ci,           \* clean_table_cells: index of the next cell of the loops
    cpc,          \* clean_table_cells: "load" | "cells" | "done"
    pc,           \* main: the statement it is at
    env,          \* main: what the file system and the converter answer
    tmp_exists,   \* the temporary file exists
    out_written,  \* the converter wrote the output document
    printed,      \* main: the messages printed, in order
    pending,      \* main: what is propagating when finally runs
    conv_called,  \* convert_md_to_docx was called
    clean_called, \* clean_table_cells was called
    cmd,          \* convert_md_to_docx: the command line run
    exit_status   \* the exit status of the process, "running" before

pre_vars == <<lines, i, out_lines, prev_blank, out_src, ppc, tmp_text>>
cell_vars == <<disk_doc, doc, doc_in, ci, cpc>>
main_vars ==
    <<pc, env, tmp_exists, out_written, printed, pending, conv_called,
      clean_called, cmd, exit_status>>
vars == <<pre_vars, cell_vars, main_vars>>

(***************************************************************************)
(* Strings                                                                 *)
(***************************************************************************)

\* The characters str.strip() removes and \s matches.
Whitespace == {" ", "\t", "\n"}

\* The full-width colon U+FF1A, one character.
FullWidthColon == "U+FF1A"

\* The backquote U+0060, one character.
Backtick == "U+0060"

RECURSIVE lstrip(_)
lstrip(s) ==
    IF s # <<>> /\ Head(s) \in Whitespace THEN lstrip(Tail(s)) ELSE s

RECURSIVE rstrip(_)
rstrip(s) ==
    IF s # <<>> /\ s[Len(s)] \in Whitespace
    THEN rstrip(SubSeq(s, 1, Len(s) - 1))
    ELSE s

\* str.strip()
strip(s) == rstrip(lstrip(s))

\* str.startswith(p)
startswith(s, p) == Len(s) >= Len(p) /\ SubSeq(s, 1, Len(p)) = p

\* str.endswith(p)
endswith(s, p) ==
    Len(s) >= Len(p) /\ SubSeq(s, Len(s) - Len(p) + 1, Len(s)) = p

\* c in s
contains(s, c) == \E k \in 1..Len(s) : s[k] = c

RECURSIVE Rep(_, _)
Rep(c, n) == IF n = 0 THEN <<>> ELSE <<c>> \o Rep(c, n - 1)

\* "\n".join(ls)
RECURSIVE join(_)
join(ls) ==
    IF ls = <<>> THEN <<>>
    ELSE IF Len(ls) = 1 THEN ls[1]
    ELSE ls[1] \o <<"\n">> \o join(Tail(ls))

TwoSpaces == <<" ", " ">>

(***************************************************************************)
(* preprocess_markdown                                                     *)
(***************************************************************************)

\* The markers of line 72 (and of is_block_start, lines 51-54).
BlockMarkers ==
    { <<"#">>, <<">">>, <<Backtick, Backtick, Backtick>>, <<"~", "~", "~">>,
      <<"$", "$">> }

is_block_start(line) ==
    LET s == strip(line)
    IN  (\E m \in BlockMarkers : startswith(s, m)) \/ s = <<>>

is_table_row(cur) == startswith(strip(cur), <<"|">>)

\* Thresholds of the dense predicate.
DenseColonLen == 40
DenseCommaLen == 80

dense(cur) ==
    \/ contains(cur, "$")
    \/ (contains(cur, FullWidthColon) /\ Len(cur) > DenseColonLen)
    \/ (contains(cur, ",") /\ Len(cur) > DenseCommaLen)

\* lines[i+1].rstrip("\n") if i+1 < len(lines) else ""
next_line(ls, k) == IF k + 1 <= Len(ls) THEN ls[k + 1] ELSE <<>>

\* The condition of line 72 on the next line.
next_joins(nl) ==
    nl # <<>> /\ ~(\E m \in BlockMarkers : startswith(strip(nl), m))

\* hard_break without the test of line 73 for a break already there.
hard_break_repeated(cur, nl) ==
    IF cur # <<>> /\ next_joins(nl) /\ dense(cur)
    THEN cur \o TwoSpaces
    ELSE cur

\* Lines 70-74: the line as the second branch emits it.
hard_break(cur, nl) ==
    IF cur # <<>> /\ next_joins(nl) /\ dense(cur) /\ ~endswith(cur, TwoSpaces)
    THEN cur \o TwoSpaces
    ELSE cur

\* needs_separator without the test of prev_blank.
needs_separator_unguarded(pb, cur) == cur # <<>>

\* Lines 63-64: whether the first branch inserts a separator.
needs_separator(pb, cur) == ~pb /\ cur # <<>>

\* block_branch collapsing runs of empty lines: an empty line after an
\* empty one is not emitted.
block_branch_collapsing(st, cur, k) ==
    IF ~st.prev_blank /\ cur # <<>>
    THEN [out_lines  |-> st.out_lines \o << <<>>, cur >>,
          out_src    |-> st.out_src \o <<0, k>>,
          prev_blank |-> (cur = <<>>)]
    ELSE IF st.prev_blank /\ cur = <<>> /\ st.out_lines # <<>>
    THEN st
    ELSE [out_lines  |-> Append(st.out_lines, cur),
          out_src    |-> Append(st.out_src, k),
          prev_blank |-> (cur = <<>>)]

\* Lines 62-67: the block-start branch.  st is the loop state.
block_branch(st, cur, k) ==
    IF needs_separator(st.prev_blank, cur)
    THEN [out_lines  |-> st.out_lines \o << <<>>, cur >>,
          out_src    |-> st.out_src \o <<0, k>>,
          prev_blank |-> (cur = <<>>)]
    ELSE [out_lines  |-> Append(st.out_lines, cur),
          out_src    |-> Append(st.out_src, k),
          prev_blank |-> (cur = <<>>)]

\* Lines 69-77: the other branch.
dense_branch(st, cur, nl, k) ==
    LET c == hard_break(cur, nl)
    IN  [out_lines  |-> Append(st.out_lines, c),
         out_src    |-> Append(st.out_src, k),
         prev_blank |-> (c = <<>>)]

\* Line 62: which branch the loop body takes.
takes_block_branch(cur) == is_block_start(cur) /\ ~is_table_row(cur)

\* One iteration of the loop of lines 58-77.
loop_body(st, ls, k) ==
    IF takes_block_branch(ls[k])
    THEN block_branch(st, ls[k], k)
    ELSE dense_branch(st, ls[k], next_line(ls, k), k)

\* Lines 45-46.
loop_init == [out_lines |-> <<>>, out_src |-> <<>>, prev_blank |-> TRUE]

RECURSIVE loop_from(_, _, _)
loop_from(st, ls, k) ==
    IF k > Len(ls) THEN st ELSE loop_from(loop_body(st, ls, k), ls, k + 1)

\* The whole loop: the lines preprocess_markdown writes.
preprocess_lines(ls) == loop_from(loop_init, ls, 1)

(***************************************************************************)
(* Inputs of the preprocessor                                              *)
(***************************************************************************)

MaxLines == 3

ColonLine(n) == <<"a", FullWidthColon>> \o Rep("a", n - 2)
CommaLine(n) == <<"a", ",">> \o Rep("a", n - 2)

InputLines ==
    { <<>>,                          \* empty
      <<" ">>,                       \* whitespace only
      <<"#", "H">>,                  \* heading
      <<"#", "$">>,                  \* heading holding math
      <<" ", ">">>,                  \* indented quote
      <<Backtick, Backtick, Backtick>>,  \* code fence
      <<"~", "~", "~">>,             \* code fence, tildes
      <<"$", "$">>,                  \* display math fence
      <<"|", "a", "|">>,             \* table row
      <<"|", "$", "|">>,             \* table row holding math
      <<"a">>,                       \* paragraph text
      <<"a", "$">>,                  \* paragraph text holding math
      <<"$", " ", " ">>,             \* math, hard break already there
      ColonLine(DenseColonLen),      \* colon line at the threshold
      ColonLine(DenseColonLen + 1),  \* colon line over the threshold
      CommaLine(DenseCommaLen),      \* comma line at the threshold
      CommaLine(DenseCommaLen + 1) } \* comma line over the threshold

InputDocs == UNION { [1..n -> InputLines] : n \in 0..MaxLines }


(***************************************************************************)
(* clean_table_cells                                                       *)
(*                                                                         *)
(* A document is the sequence of the cells of its tables, in the order of  *)
(* the three loops; a cell is a sequence of paragraphs; a paragraph has    *)
(* runs and an alignment; a run has a text and a font.                     *)
(***************************************************************************)

\* A run as docx makes it: the font inherited from the style.
new_run(t) == [text |-> t, name |-> "inherit", size |-> "inherit"]

new_paragraph(rs) == [runs |-> rs, alignment |-> "inherit"]

RECURSIVE concat(_)
concat(ss) == IF ss = <<>> THEN <<>> ELSE Head(ss) \o concat(Tail(ss))

\* p.text: the texts of the runs of the paragraph, concatenated.
paragraph_text(p) == concat([k \in 1..Len(p.runs) |-> p.runs[k].text])

\* Line 122.
full_text(cell) ==
    strip(join([k \in 1..Len(cell) |-> paragraph_text(cell[k])]))

NoMatch == [matched |-> FALSE, group |-> <<>>]

\* re.match of ^\s X (.+) X \s*$ against s, X being n dollar signs: one
\* whitespace character, the opening dollars, the longest group the rest
\* allows (no "\n" in it, at least one character), the closing dollars,
\* whitespace to the end.  ends: where the closing dollars may start.
dollar_match(s, n) ==
    LET ends == { j \in (n + 3)..(Len(s) - n + 1) :
                    /\ \A k \in j..(j + n - 1) : s[k] = "$"
                    /\ \A k \in (j + n)..Len(s) : s[k] \in Whitespace
                    /\ \A k \in (n + 2)..(j - 1) : s[k] # "\n" }
        last == CHOOSE j \in ends : \A k \in ends : k <= j
    IN  IF /\ Len(s) >= 1
           /\ s[1] \in Whitespace
           /\ \A k \in 2..(n + 1) : k <= Len(s) /\ s[k] = "$"
           /\ ends # {}
        THEN [matched |-> TRUE, group |-> SubSeq(s, n + 2, last - 1)]
        ELSE NoMatch

\* Line 115: ^\s\$(.+)\$\s*$
math_inline_re(s) == dollar_match(s, 1)

\* Line 116: ^\s\$\$(.+)\$\$\s*$
math_block_re(s) == dollar_match(s, 2)

\* Lines 124-130: cleaned, None being [some |-> FALSE].
cleaned(ft) ==
    LET m1 == math_inline_re(ft)
        m2 == math_block_re(ft)
    IN  IF m1.matched THEN [some |-> TRUE, text |-> strip(m1.group)]
        ELSE IF m2.matched THEN [some |-> TRUE, text |-> strip(m2.group)]
        ELSE [some |-> FALSE, text |-> <<>>]

\* Lines 134-138: every paragraph is left with one run holding the text.
set_text(cell, t) ==
    [k \in 1..Len(cell) |-> [cell[k] EXCEPT !.runs = <<new_run(t)>>]]

\* Lines 145-146.
formula_run(r) == [r EXCEPT !.name = "Consolas", !.size = "Pt(10)"]

\* Lines 143-147.
set_formula_style(cell) ==
    [k \in 1..Len(cell) |->
        [runs      |-> [j \in 1..Len(cell[k].runs) |->
                            formula_run(cell[k].runs[j])],
         alignment |-> "LEFT"]]

\* is_formula looking for "=" anywhere in the text.
is_formula_anywhere(ft) == contains(ft, "=")

\* Line 142.
is_formula(ft) == startswith(ft, <<"=">>)

\* Lines 122-147: the body of the innermost loop, for one cell.
clean_cell(cell) ==
    LET ft == full_text(cell)
        cl == cleaned(ft)
    IN  IF cl.some THEN set_text(cell, cl.text)
        ELSE IF is_formula(ft) THEN set_formula_style(cell)
        ELSE cell

\* Lines 118-147: the loops over a whole document.
clean_document(d) == [k \in 1..Len(d) |-> clean_cell(d[k])]

(***************************************************************************)
(* Inputs of the cell normalizer                                           *)
(***************************************************************************)

MaxCells == 2

OneRun(t) == <<new_paragraph(<<new_run(t)>>)>>

InputCells ==
    { OneRun(<<" ", "$", "x", "+", "1", "$", " ">>),
      OneRun(<<"$", "$", "a", "=", "b", "$", "$">>),
      OneRun(<<"$", "x", "$">>),
      OneRun(<<"=", "S", "U", "M">>),
      OneRun(<<" ", "=", "a">>),
      OneRun(<<"p", "l", "a", "i", "n">>),
      OneRun(<<"a", "=", "b">>),
      \* a paragraph without runs
      <<new_paragraph(<<>>)>>,
      \* a formula split over two runs
      <<new_paragraph(<<new_run(<<"=">>), new_run(<<"a">>)>>)>>,
      \* math split over two runs, centred
      <<[runs |-> <<new_run(<<"$", "x">>), new_run(<<"$">>)>>,
         alignment |-> "CENTER"]>>,
      \* two paragraphs, the first a formula
      <<new_paragraph(<<new_run(<<"=", "a">>)>>),
        new_paragraph(<<new_run(<<"b">>)>>)>>,
      \* math followed by an empty paragraph
      <<new_paragraph(<<new_run(<<"$", "x", "$">>)>>),
        new_paragraph(<<>>)>> }

InputDocuments == UNION { [1..n -> InputCells] : n \in 0..MaxCells }

(***************************************************************************)
(* main                                                                    *)
(***************************************************************************)

\* Lines 91-103: the command line of the converter.
pandoc_cmd(input_md, output_docx, reference_doc) ==
    <<"pandoc", "--from", "gfm+tex_math_dollars+raw_html", "--to", "docx",
      "--output", output_docx, "--wrap=none", "--columns=999",
      "-M", "east_asian_line_breaks=true", "--embed-resources">>
    \o (IF reference_doc # "None"
        THEN <<"--reference-doc", reference_doc>> ELSE <<>>)
    \o <<input_md>>

\* Lines 161-163: where main goes after the test of the input path.
after_input_check(is_file) == IF is_file THEN "check_pandoc" ELSE "exit"

\* after_pandoc_check without the sys.exit(1) of line 169.
after_pandoc_check_no_exit(found) == "preprocess"

\* Lines 167-169: where main goes after check_pandoc.
after_pandoc_check(found) == IF found THEN "preprocess" ELSE "exit"

\* after_convert for subprocess.run without check=True: the exit status
\* of the converter is ignored.
after_convert_unchecked(result) ==
    CASE result = "oserror" -> "finally"
      [] OTHER              -> "clean"

\* Lines 105, 173-177: where main goes after subprocess.run(cmd,
\* check=True): on, into the handler of CalledProcessError, or out through
\* finally with the error of a converter that could not be started.
after_convert(result) ==
    CASE result = "ok"      -> "clean"
      [] result = "nonzero" -> "except"
      [] OTHER              -> "finally"

\* Lines 171-172: the try statement starts after preprocess_markdown
\* returned; an error inside preprocess_markdown leaves main at once.
after_preprocess(fault) == IF fault = "none" THEN "convert" ELSE "exit"

\* Lines 79-80: NamedTemporaryFile(delete=False) has created the file
\* when tmp.write runs.
tmp_created(fault) == fault \in {"none", "write"}

\* Lines 182-185: os.unlink(pre_md) removes the file, which main created
\* and closed itself.  (An error of os.unlink would be swallowed by lines
\* 184-185; the file system is taken to carry the removal out.)
unlink(exists) == FALSE

\* The status the interpreter exits with: sys.exit(1), an uncaught
\* exception, or the end of main.
exit_code(p) == IF p = "none" THEN "0" ELSE "1"

Environments ==
    [input_is_file : BOOLEAN,
     pandoc_found  : BOOLEAN,
     pre_fault     : {"none", "open", "mktemp", "write"},
     conv_result   : {"ok", "nonzero", "oserror"},
     clean_raises  : BOOLEAN,
     reference_doc : {"None", "ref.docx"}]

\* The input files and the converter's documents of the runs of main.
MainInputs ==
    { << <<"#", "H">>, <<"a", "$">>, <<"|", "$", "|">>, <<"|", "a", "|">> >>,
      << >> }

PandocDocuments ==
    { << OneRun(<<"=", "S", "U", "M">>), OneRun(<<"$", "x", "$">>) >>,
      << >> }

(***************************************************************************)
(* Initial states                                                          *)
(***************************************************************************)

PreIdle ==
    /\ i = 1
    /\ out_lines = loop_init.out_lines
    /\ out_src = loop_init.out_src
    /\ prev_blank = loop_init.prev_blank
    /\ ppc = "loop"
    /\ tmp_text = <<>>

CellIdle ==
    /\ doc = <<>>
    /\ doc_in = <<>>
    /\ ci = 1
    /\ cpc = "load"

MainIdle ==
    /\ pc = "start"
    /\ tmp_exists = FALSE
    /\ out_written = FALSE
    /\ printed = <<>>
    /\ pending = "none"
    /\ conv_called = FALSE
    /\ clean_called = FALSE
    /\ cmd = <<>>
    /\ exit_status = "running"

NoEnvironment ==
    [input_is_file |-> TRUE, pandoc_found |-> TRUE, pre_fault |-> "none",
     conv_result |-> "ok", clean_raises |-> FALSE, reference_doc |-> "None"]

\* preprocess_markdown alone, on every input of InputDocs.
PreInit ==
    /\ lines \in InputDocs
    /\ PreIdle
    /\ disk_doc = <<>>
    /\ CellIdle
    /\ env = NoEnvironment
    /\ MainIdle

\* clean_table_cells alone, on every document of InputDocuments.
CellInit ==
    /\ lines = <<>>
    /\ PreIdle
    /\ disk_doc \in InputDocuments
    /\ CellIdle
    /\ env = NoEnvironment
    /\ MainIdle

\* main, in every environment.
MainInit ==
    /\ lines \in MainInputs
    /\ PreIdle
    /\ disk_doc = <<>>
    /\ CellIdle
    /\ env \in Environments
    /\ MainIdle

(***************************************************************************)
(* Steps of preprocess_markdown                                            *)
(***************************************************************************)

LoopState ==
    [out_lines |-> out_lines, out_src |-> out_src, prev_blank |-> prev_blank]

SetLoopState(st) ==
    /\ out_lines' = st.out_lines
    /\ out_src' = st.out_src
    /\ prev_blank' = st.prev_blank

\* Lines 62-67.
LoopBlockStart ==
    /\ ppc = "loop"
    /\ i <= Len(lines)
    /\ takes_block_branch(lines[i])
    /\ SetLoopState(loop_body(LoopState, lines, i))
    /\ i' = i + 1
    /\ UNCHANGED <<lines, ppc, tmp_text, cell_vars, main_vars>>

\* Lines 69-77.
LoopDense ==
    /\ ppc = "loop"
    /\ i <= Len(lines)
    /\ ~takes_block_branch(lines[i])
    /\ SetLoopState(loop_body(LoopState, lines, i))
    /\ i' = i + 1
    /\ UNCHANGED <<lines, ppc, tmp_text, cell_vars, main_vars>>

\* Lines 79-82.
WriteTmp ==
    /\ ppc = "loop"
    /\ i > Len(lines)
    /\ tmp_text' = join(out_lines)
    /\ ppc' = "done"
    /\ UNCHANGED <<lines, i, out_lines, prev_blank, out_src>>
    /\ UNCHANGED <<cell_vars, main_vars>>

PreNext == LoopBlockStart \/ LoopDense \/ WriteTmp

SpecPre == PreInit /\ [][PreNext]_vars

(***************************************************************************)
(* Steps of clean_table_cells                                              *)
(***************************************************************************)

\* Line 114.
LoadDocument ==
    /\ cpc = "load"
    /\ doc' = disk_doc
    /\ doc_in' = disk_doc
    /\ ci' = 1
    /\ cpc' = "cells"
    /\ UNCHANGED <<disk_doc, pre_vars, main_vars>>

\* Lines 120-147, one cell.
CleanCell ==
    /\ cpc = "cells"
    /\ ci <= Len(doc)
    /\ doc' = [doc EXCEPT ![ci] = clean_cell(doc[ci])]
    /\ ci' = ci + 1
    /\ UNCHANGED <<disk_doc, doc_in, cpc, pre_vars, main_vars>>

\* Line 149.
SaveDocument ==
    /\ cpc = "cells"
    /\ ci > Len(doc)
    /\ disk_doc' = doc
    /\ cpc' = "done"
    /\ UNCHANGED <<doc, doc_in, ci, pre_vars, main_vars>>

CellNext == LoadDocument \/ CleanCell \/ SaveDocument

SpecCell == CellInit /\ [][CellNext]_vars

(***************************************************************************)
(* Steps of main                                                           *)
(***************************************************************************)

\* Lines 160-163.
CheckInput ==
    /\ pc = "start"
    /\ pc' = after_input_check(env.input_is_file)
    /\ IF pc' = "exit"
       THEN /\ printed' = Append(printed, "Input file not found")
            /\ exit_status' = exit_code("SystemExit")
       ELSE UNCHANGED <<printed, exit_status>>
    /\ UNCHANGED <<env, tmp_exists, out_written, pending, conv_called,
                   clean_called, cmd, pre_vars, cell_vars>>

\* Lines 165-169.
CheckPandoc ==
    /\ pc = "check_pandoc"
    /\ pc' = after_pandoc_check(env.pandoc_found)
    /\ IF pc' = "exit"
       THEN /\ printed' = Append(printed, "Error: pandoc not found")
            /\ exit_status' = exit_code("SystemExit")
       ELSE UNCHANGED <<printed, exit_status>>
    /\ UNCHANGED <<env, tmp_exists, out_written, pending, conv_called,
                   clean_called, cmd, pre_vars, cell_vars>>

\* Line 171, with preprocess_markdown (lines 42-82) as one step.  The
\* fault "open" ends it at line 42, "mktemp" at line 79, "write" at
\* line 80 with the file created; none of them is caught.
Preprocess ==
    /\ pc = "preprocess"
    /\ LET f  == env.pre_fault
           st == preprocess_lines(lines)
       IN  /\ IF f = "open"
              THEN UNCHANGED <<i, out_lines, out_src, prev_blank>>
              ELSE /\ i' = Len(lines) + 1
                   /\ SetLoopState(st)
           /\ tmp_exists' = tmp_created(f)
           /\ tmp_text' = IF f = "none" THEN join(st.out_lines) ELSE <<>>
           /\ ppc' = IF f = "none" THEN "done" ELSE "loop"
           /\ pc' = after_preprocess(f)
           /\ pending' = IF f = "none" THEN "none" ELSE "exception"
           /\ exit_status' =
                  IF pc' = "exit" THEN exit_code(pending') ELSE "running"
    /\ UNCHANGED <<lines, env, out_written, printed, conv_called,
                   clean_called, cmd, cell_vars>>

\* Line 173, with convert_md_to_docx (lines 91-105) as one step.
Convert ==
    /\ pc = "convert"
    /\ conv_called' = TRUE
    /\ cmd' = pandoc_cmd("pre.md", "out.docx", env.reference_doc)
    /\ pc' = after_convert(env.conv_result)
    /\ out_written' = (env.conv_result = "ok")
    /\ \E d \in PandocDocuments :
           disk_doc' = IF env.conv_result = "ok" THEN d ELSE disk_doc
    /\ pending' = IF env.conv_result = "oserror" THEN "exception" ELSE "none"
    /\ UNCHANGED <<env, tmp_exists, printed, clean_called, exit_status,
                   pre_vars, doc, doc_in, ci, cpc>>

\* Line 175, with clean_table_cells (lines 114-149) as one step; an error
\* in it (the document cannot be loaded or saved) is not caught.
Clean ==
    /\ pc = "clean"
    /\ clean_called' = TRUE
    /\ IF env.clean_raises
       THEN /\ pending' = "exception"
            /\ pc' = "finally"
            /\ UNCHANGED cell_vars
       ELSE /\ doc_in' = disk_doc
            /\ doc' = clean_document(disk_doc)
            /\ disk_doc' = doc'
            /\ ci' = Len(disk_doc) + 1
            /\ cpc' = "done"
            /\ pc' = "print"
            /\ UNCHANGED pending
    /\ UNCHANGED <<env, tmp_exists, out_written, printed, conv_called, cmd,
                   exit_status, pre_vars>>

\* Line 176.
PrintConverted ==
    /\ pc = "print"
    /\ printed' = Append(printed, "Converted")
    /\ pc' = "finally"
    /\ UNCHANGED <<env, tmp_exists, out_written, pending, conv_called,
                   clean_called, cmd, exit_status, pre_vars, cell_vars>>

\* Lines 177-180.
ConversionFailed ==
    /\ pc = "except"
    /\ printed' = printed \o <<"Pandoc conversion failed.", "e">>
    /\ pending' = "SystemExit"
    /\ pc' = "finally"
    /\ UNCHANGED <<env, tmp_exists, out_written, conv_called, clean_called,
                   cmd, exit_status, pre_vars, cell_vars>>

\* Lines 181-185, then the exit of the process.
Finally ==
    /\ pc = "finally"
    /\ tmp_exists' = unlink(tmp_exists)
    /\ exit_status' = exit_code(pending)
    /\ pc' = "exit"
    /\ UNCHANGED <<env, out_written, printed, pending, conv_called,
                   clean_called, cmd, pre_vars, cell_vars>>

MainNext ==
    \/ CheckInput
    \/ CheckPandoc
    \/ Preprocess
    \/ Convert
    \/ Clean
    \/ PrintConverted
    \/ ConversionFailed
    \/ Finally

SpecMain == MainInit /\ [][MainNext]_vars

(***************************************************************************)
(* Properties of preprocess_markdown (under SpecPre)                       *)
(***************************************************************************)

\* The input lines the loop has dealt with.
Processed == 1..(i - 1)

\* Where input line k stands in the output.
pos(k) == CHOOSE p \in 1..Len(out_src) : out_src[p] = k

IsSeparator(p) == out_src[p] = 0

NotSeparator(n) == n # 0

\* The stripped line starts with one of the five markers.
HasMarker(l) ==
    LET s == strip(l)
    IN  \/ startswith(s, <<"#">>)
        \/ startswith(s, <<">">>)
        \/ startswith(s, <<Backtick, Backtick, Backtick>>)
        \/ startswith(s, <<"~", "~", "~">>)
        \/ startswith(s, <<"$", "$">>)

\* Block-start line: the stripped line is empty or starts with a marker.
BlockStart(l) == strip(l) = <<>> \/ HasMarker(l)

TableRow(l) == strip(l) # <<>> /\ strip(l)[1] = "|"

\* The dense predicate.
DenseLine(l) ==
    \/ \E k \in 1..Len(l) : l[k] = "$"
    \/ (\E k \in 1..Len(l) : l[k] = FullWidthColon) /\ Len(l) > 40
    \/ (\E k \in 1..Len(l) : l[k] = ",") /\ Len(l) > 80

EndsInTwoSpaces(l) ==
    Len(l) >= 2 /\ l[Len(l)] = " " /\ l[Len(l) - 1] = " "

NextOf(k) == IF k < Len(lines) THEN lines[k + 1] ELSE <<>>

\* C1: every table row appears in the output exactly as it was in the
\* input, and no separator line is inserted immediately before it.
C1_TableRowsUntouched ==
    \A k \in Processed :
        TableRow(lines[k]) =>
            /\ out_lines[pos(k)] = lines[k]
            /\ (pos(k) = 1 \/ ~IsSeparator(pos(k) - 1))

C4_SeparatorAfterHeading ==
    \A k \in Processed :
        ( /\ k + 1 \in Processed
          /\ startswith(strip(lines[k]), <<"#">>)
          /\ ~BlockStart(lines[k + 1])
          /\ ~TableRow(lines[k + 1]) )
        => /\ pos(k + 1) = pos(k) + 2
           /\ IsSeparator(pos(k) + 1)

\* C6: every inserted separator is an empty line, has a non-empty emitted
\* line immediately before it, and has immediately after it the non-empty
\* block-start line of the input that caused it; so none stands first and
\* no two are adjacent.
C6_SeparatorPlacement ==
    \A p \in 1..Len(out_src) :
        IsSeparator(p) =>
            /\ out_lines[p] = <<>>
            /\ p > 1
            /\ out_lines[p - 1] # <<>>
            /\ p < Len(out_src)
            /\ ~IsSeparator(p + 1)
            /\ out_lines[p + 1] # <<>>
            /\ out_lines[p + 1] = lines[out_src[p + 1]]
            /\ BlockStart(out_lines[p + 1])

\* C6 witness: two separators were inserted.
C6_Witness ==
    \E p, q \in 1..Len(out_src) : p < q /\ IsSeparator(p) /\ IsSeparator(q)

\* C10: dropping the inserted separators from the output, and the two
\* appended spaces from each rewritten line, gives the input lines dealt
\* with so far, all of them and in their order.
C10_LinesKeptInOrder ==
    /\ Len(out_lines) = Len(out_src)
    /\ Len(out_lines) >= i - 1
    /\ SelectSeq(out_src, NotSeparator) = [k \in Processed |-> k]
    /\ \A p \in 1..Len(out_src) :
           IF IsSeparator(p)
           THEN out_lines[p] = <<>>
           ELSE \/ out_lines[p] = lines[out_src[p]]
                \/ out_lines[p] = lines[out_src[p]] \o <<" ", " ">>

\* C10 witness: a finished run that inserted a separator, rewrote a line
\* and emitted an empty input line.
C10_Witness ==
    /\ ppc = "done"
    /\ \E p \in 1..Len(out_src) : IsSeparator(p)
    /\ \E k \in Processed : out_lines[pos(k)] # lines[k]
    /\ \E k \in Processed : lines[k] = <<>>

(***************************************************************************)
(* Properties of clean_table_cells (under SpecCell)                        *)
(***************************************************************************)

\* The cells the loops have dealt with.
Cleaned == 1..(ci - 1)

\* The text is an expression between n dollar signs on each side.
Wrapped(ft, n) ==
    /\ Len(ft) >= 2 * n + 1
    /\ \A k \in 1..n : ft[k] = "$" /\ ft[Len(ft) + 1 - k] = "$"

\* The expression with its outer delimiters removed, trimmed.
Inner(ft) ==
    IF Wrapped(ft, 2)
    THEN strip(SubSeq(ft, 3, Len(ft) - 2))
    ELSE strip(SubSeq(ft, 2, Len(ft) - 1))

MatchesPattern(ft) == math_inline_re(ft).matched \/ math_block_re(ft).matched

\* C3: a cell whose full text is an expression wrapped in $...$ or in
\* $$...$$ ends with the inner expression, trimmed, as its text.
C3_MathCellsUnwrapped ==
    \A k \in Cleaned :
        LET ft == full_text(doc_in[k])
        IN  (Wrapped(ft, 1) \/ Wrapped(ft, 2)) =>
                full_text(doc[k]) = Inner(ft)

\* C9: a cell whose full text matches no math pattern keeps its text; if
\* it starts with "=" its runs get the fixed-width font at 10 points and
\* its paragraphs are left-aligned, and nothing else changes; if not, the
\* cell is unchanged; a math cell never gets the fixed-width formatting.
C9_OnlyMathChangesText ==
    \A k \in Cleaned :
        LET ft  == full_text(doc_in[k])
            old == doc_in[k]
            new == doc[k]
        IN  /\ (~MatchesPattern(ft) /\ ft # <<>> /\ ft[1] = "=") =>
                /\ Len(new) = Len(old)
                /\ \A p \in 1..Len(old) :
                       /\ new[p].alignment = "LEFT"
                       /\ Len(new[p].runs) = Len(old[p].runs)
                       /\ \A r \in 1..Len(old[p].runs) :
                              /\ new[p].runs[r].text = old[p].runs[r].text
                              /\ new[p].runs[r].name = "Consolas"
                              /\ new[p].runs[r].size = "Pt(10)"
            /\ (~MatchesPattern(ft) /\ ~(ft # <<>> /\ ft[1] = "=")) =>
                new = old
            /\ (MatchesPattern(ft) \/ Wrapped(ft, 1)) =>
                /\ Len(new) = Len(old)
                /\ \A p \in 1..Len(new) :
                       /\ new[p].alignment = old[p].alignment
                       /\ \A r \in 1..Len(new[p].runs) :
                              new[p].runs[r].name # "Consolas"

\* C9 witness: a formula cell was reformatted, a dollar-wrapped cell and
\* a plain cell were passed over.
C9_Witness ==
    /\ \E k \in Cleaned :
           /\ is_formula(full_text(doc_in[k]))
           /\ doc[k] # doc_in[k]
           /\ doc_in[k][1].runs # <<>>
    /\ \E k \in Cleaned : Wrapped(full_text(doc_in[k]), 1)

(***************************************************************************)
(* Properties of main (under SpecMain)                                     *)
(***************************************************************************)

Said(m) == \E k \in 1..Len(printed) : printed[k] = m

ConverterFailed == conv_called /\ env.conv_result = "nonzero"

C7_TmpGoneAtExit == pc = "exit" => ~tmp_exists

\* C8: with the input file missing or, checked second, the converter not
\* found, the run prints its message and exits with status 1, having
\* created no temporary file, run no converter, called no
\* clean_table_cells and written no output document.
C8_EarlyExit ==
    (~env.input_is_file \/ ~env.pandoc_found) =>
        /\ ~tmp_exists /\ tmp_text = <<>>
        /\ ~conv_called /\ cmd = <<>>
        /\ ~clean_called
        /\ ~out_written /\ disk_doc = <<>>
        /\ pc \in {"start", "check_pandoc", "exit"}
        /\ pc = "exit" =>
               /\ exit_status = "1"
               /\ printed = IF ~env.input_is_file
                            THEN <<"Input file not found">>
                            ELSE <<"Error: pandoc not found">>

\* C8 witness: the run exited because the converter was not found.
C8_Witness == pc = "exit" /\ env.input_is_file /\ ~env.pandoc_found

====
